---- MODULE Spec2Model ----
(***************************************************************************)
(* votechain: the hash-chained vote ledger (voting_api/models.py), the     *)
(* cast-vote request (voting_api/views.py, voting_api/serializers.py) and  *)
(* the dashboard websocket consumer (voting_api/consumers.py).             *)
(*                                                                         *)
(* Requests run concurrently, one database statement per step.  The        *)
(* database gives each statement a view of the committed rows (READ        *)
(* COMMITTED, the default of the server databases DATABASE_URL selects);   *)
(* a statement or the commit may also fail, which is what an engine that   *)
(* serialises writers (SQLite) answers to the second writer.               *)
(*                                                                         *)
(* Spec follows the cast requests, SpecDash casts with one dashboard       *)
(* session, SpecHub one cast with every session, SpecChains casts for two  *)
(* elections, SpecLive a cast and a session under fair scheduling,         *)
(* SpecAdmin the casts beside the admin site, SpecRead the public reads,   *)
(* SpecLink the hardware-link requests, SpecSave VoteLedger.save called    *)
(* with fields the caller has set.                                         *)
(* SpecTally and SpecHash apply _get_tally_data and calculate_hash to      *)
(* inputs of their own, which probe holds together with the results; in    *)
(* SpecRead probe holds the response of the last public read.              *)
(***************************************************************************)
EXTENDS Integers, Sequences, FiniteSets, TLC

VARIABLES clock, ledger, next_pk, voters, elections, req, sess, groups, chan, received,
          probe, preapproved, registered, link

\* the tables and requests of the hardware link
linkvars == <<preapproved, registered, link>>

vars == <<clock, ledger, next_pk, voters, elections, req, sess, groups, chan, received,
          probe, preapproved, registered, link>>

(* ------------------------------ bounds --------------------------------- *)
NumCasts == 2
NumLinks == 2
NumSessions == 2
MaxClock == 2

Casts == 1..NumCasts
Sessions == 1..NumSessions
Links == 1..NumLinks

(* --------------------------- stored elections -------------------------- *)
\* the Election rows when the server starts; elections maps the id of every
\* row that still exists to its is_active, which the admin may change
\* positions_json: ordered mapping position -> ordered list of candidates
SchemaA == << <<"President", <<"Alice", "Bob">>>> >>
SchemaB == << <<"President", <<"Alice", "Bob">>>> >>

Elections ==
  { [id |-> 1, name |-> "E1", election_id |-> "e1", is_active |-> TRUE,
     positions_json |-> SchemaA],
    [id |-> 2, name |-> "E2", election_id |-> "e2", is_active |-> TRUE,
     positions_json |-> SchemaB],
    [id |-> 3, name |-> "E3", election_id |-> "e3", is_active |-> FALSE,
     positions_json |-> SchemaA] }

\* the slugs a request or a websocket URL may carry; "zz" names no election
Slugs == {"e1", "e2", "e3", "zz"}

ElectionIds == {e.id : e \in Elections}

ElectionExists(slug) ==
  \E e \in Elections : e.election_id = slug /\ e.id \in DOMAIN elections

ElectionBySlug(slug) == CHOOSE e \in Elections : e.election_id = slug

ElectionById(i) == CHOOSE e \in Elections : e.id = i

(* ------------------------------ voters --------------------------------- *)
Rfids == {"r1", "r2", "r3"}
Fingerprints == {"f1"}

hash_voter_data(rfid, fingerprint) == <<"sha256", rfid, "-", fingerprint>>

\* RegisteredVoter rows present when voting starts: <<election id, voter_hash>>
RegisteredKeys ==
  { <<1, hash_voter_data("r1", "f1")>>,
    <<1, hash_voter_data("r2", "f1")>>,
    <<2, hash_voter_data("r1", "f1")>>,
    <<3, hash_voter_data("r1", "f1")>> }

\* PreApprovedVoter rows the admin has uploaded: <<election id, unique_identifier>>
PreApprovedKeys == { <<1, "u1">>, <<2, "u1">>, <<2, "u2">> }

UniqueIdentifiers == {"u1", "u2", "u9"}

(* ------------------------------ ballots -------------------------------- *)
\* votes: a JSON object, as the sequence of its (position, candidate) items
Ballots == { << <<"President", "Alice">> >>, << <<"President", "Bob">> >> }

(* ------------------------------ hashing -------------------------------- *)
\* "0" * 64
GenesisHash == <<"0000000000000000000000000000000000000000000000000000000000000000">>

\* lexicographic order of the object keys json.dumps(sort_keys=True) sorts by
KeyOrder == <<"President", "Secretary", "VP">>

KeyRank(k) == CHOOSE i \in 1..Len(KeyOrder) : KeyOrder[i] = k

RECURSIVE InsertByKey(_, _)
InsertByKey(item, sorted) ==
  IF sorted = <<>> THEN <<item>>
  ELSE IF KeyRank(item[1]) <= KeyRank(Head(sorted)[1])
       THEN <<item>> \o sorted
       ELSE <<Head(sorted)>> \o InsertByKey(item, Tail(sorted))

RECURSIVE SortByKey(_)
SortByKey(items) ==
  IF items = <<>> THEN <<>> ELSE InsertByKey(Head(items), SortByKey(Tail(items)))

RECURSIVE DumpItems(_)
DumpItems(items) ==
  IF items = <<>> THEN <<>>
  ELSE <<Head(items)[1], ": ", Head(items)[2]>>
       \o (IF Tail(items) = <<>> THEN <<>> ELSE <<", ">>)
       \o DumpItems(Tail(items))

\* json.dumps(ballot_data) without sort_keys: the items as the dict holds them
json_dumps_Unsorted(ballot_data) == <<"{">> \o DumpItems(ballot_data) \o <<"}">>

\* json.dumps(ballot_data, sort_keys=True), as the sequence of its tokens
json_dumps(ballot_data) == <<"{">> \o DumpItems(SortByKey(ballot_data)) \o <<"}">>

\* datetime.isoformat() of the clock reading t
isoformat(t) == "T" \o ToString(t)

\* hashlib.sha256(s).hexdigest(): the digest stands for its pre-image
\* (SHA-256 taken as collision free), tagged so that it is no pre-image itself
sha256_hexdigest(s) == <<"sha256">> \o s

calculate_hash(election, ballot_data, timestamp, previous_hash) ==
  sha256_hexdigest(<<ToString(election)>> \o json_dumps(ballot_data)
                   \o <<isoformat(timestamp)>> \o previous_hash)

(* ------------------------- ledger queries and tally -------------------- *)
\* VoteLedger.objects.filter(election=e), as the set of committed rows
\* the query without its election filter
RowsOf_AnyElection(e) == {ledger[i] : i \in 1..Len(ledger)}

RowsOf(e) == {ledger[i] : i \in {j \in 1..Len(ledger) : ledger[j].election = e}}

\* .order_by('-timestamp').first(): a row of the greatest timestamp; the
\* database breaks a tie between equal timestamps as it likes
LastVotes(e) == {r \in RowsOf(e) : \A q \in RowsOf(e) : q.timestamp <= r.timestamp}

\* .order_by('timestamp'): every listing of the rows in ascending timestamp
TimestampOrders(rows) ==
  {s \in [1..Cardinality(rows) -> rows] :
     /\ \A i, j \in 1..Cardinality(rows) : i # j => s[i] # s[j]
     /\ \A i, j \in 1..Cardinality(rows) : i < j => s[i].timestamp <= s[j].timestamp}

\* .values_list('ballot_data', flat=True)
BallotsOf(e) == [i \in 1..Len(SelectSeq(ledger, LAMBDA r : r.election = e)) |->
                   SelectSeq(ledger, LAMBDA r : r.election = e)[i].ballot_data]

\* the keys of {key: ... for key in seq}: each value once, at its first place
RECURSIVE DictKeys(_)
DictKeys(seq) ==
  IF seq = <<>> THEN <<>>
  ELSE <<Head(seq)>> \o DictKeys(SelectSeq(Tail(seq), LAMBDA x : x # Head(seq)))

\* number of ballots the counting loop adds to tally[position][candidate]
VotesFor(position, candidate, ballots) ==
  Cardinality({i \in 1..Len(ballots) :
                 \E k \in 1..Len(ballots[i]) : ballots[i][k] = <<position, candidate>>})

RECURSIVE CandidateRows(_, _, _)
CandidateRows(position, candidates, ballots) ==
  IF candidates = <<>> THEN <<>>
  ELSE <<[position |-> position, candidate |-> Head(candidates),
          votes |-> VotesFor(position, Head(candidates), ballots)]>>
       \o CandidateRows(position, Tail(candidates), ballots)

\* tally_results of _get_tally_data: one row per declared pair, schema order
RECURSIVE TallyResults(_, _)
TallyResults(positions_json, ballots) ==
  IF positions_json = <<>> THEN <<>>
  ELSE CandidateRows(Head(positions_json)[1], DictKeys(Head(positions_json)[2]), ballots)
       \o TallyResults(Tail(positions_json), ballots)

\* JSON arrays a ballot may carry as a value, written as their JSON text;
\* json.loads makes them lists, which are not hashable
JsonArrays == {"[Alice]"}

Hashable(value) == value \notin JsonArrays

\* the counting loop raises TypeError at "candidate in tally[position]" when
\* the position is declared and the value is not hashable
TallyRaises(positions_json, ballots) ==
  \E i \in 1..Len(ballots) : \E k \in 1..Len(ballots[i]) :
    /\ \E a \in 1..Len(positions_json) : positions_json[a][1] = ballots[i][k][1]
    /\ ~Hashable(ballots[i][k][2])

\* the tally part of _get_tally_data: the rows, or the exception
get_tally_data(positions_json, ballots) ==
  IF TallyRaises(positions_json, ballots)
  THEN [raised |-> TRUE, tally |-> <<>>]
  ELSE [raised |-> FALSE, tally |-> TallyResults(positions_json, ballots)]

\* PublicLedgerSerializer: the fields of a row the dashboard shows
PublicLedgerRow(r) ==
  [vote_id |-> r.id, timestamp |-> isoformat(r.timestamp),
   previous_hash |-> r.previous_hash, current_hash |-> r.current_hash,
   ballot_data |-> r.ballot_data]

PublicLedger(rows) == [i \in 1..Len(rows) |-> PublicLedgerRow(rows[i])]

(* ------------------------------- state --------------------------------- *)
NoPayload == [tally |-> <<>>, ledger |-> <<>>]

\* a request slot of CastVoteView.post before the request arrives
NoReq ==
  [pc |-> "idle", slug |-> "", election |-> 0, voter_hash |-> <<>>, votes |-> <<>>,
   pk |-> 0, timestamp |-> 0, previous_hash |-> <<>>, current_hash |-> <<>>,
   inserted |-> FALSE, marked |-> FALSE, payload |-> NoPayload,
   committed |-> FALSE, published |-> FALSE, status |-> 0, reason |-> ""]

\* a DashboardConsumer instance before the websocket handshake
NoSess ==
  [pc |-> "new", election_id |-> "", sock |-> "none", disconnect |-> FALSE,
   has_data |-> FALSE, payload |-> NoPayload]

\* no function is under test while the server runs
NoProbe == [op |-> "none"]

\* a POST /link-hardware that has not arrived
NoLink ==
  [pc |-> "idle", election |-> 0, unique_identifier |-> "", voter_hash |-> <<>>,
   marked |-> FALSE, created |-> FALSE, status |-> 0]

\* the server before any request: empty ledger, nobody has voted, no
\* identifier is linked
ServerInit ==
  /\ clock = 1
  /\ ledger = <<>>
  /\ next_pk = 1
  /\ voters = [k \in RegisteredKeys |-> FALSE]
  /\ elections = [i \in ElectionIds |-> ElectionById(i).is_active]
  /\ req = [c \in Casts |-> NoReq]
  /\ sess = [s \in Sessions |-> NoSess]
  /\ groups = [g \in Slugs |-> {}]
  /\ chan = [s \in Sessions |-> <<>>]
  /\ received = [s \in Sessions |-> <<>>]
  /\ preapproved = [k \in PreApprovedKeys |-> FALSE]
  /\ registered = <<>>
  /\ link = [l \in Links |-> NoLink]

Init == ServerInit /\ probe = NoProbe

(* --------------------------- CastVoteView.post ------------------------- *)
\* the response of a finished request; of the request itself only how far
\* its writes had got stays recorded
Respond(r, status, reason) ==
  [NoReq EXCEPT !.pc = "done", !.inserted = r.inserted, !.marked = r.marked,
                !.committed = r.committed, !.published = r.published,
                !.status = status, !.reason = reason]

\* a POST /vote/cast arrives with its election_id, rfid, fingerprint and votes
CastReceive(c, slugs, ballots) ==
  /\ req[c].pc = "idle"
  /\ \A d \in Casts : d < c => req[d].pc # "idle"
  /\ \E slug \in slugs, rfid \in Rfids, fingerprint \in Fingerprints, votes \in ballots :
       req' = [req EXCEPT ![c].pc = "validate", ![c].slug = slug,
                          ![c].voter_hash = hash_voter_data(rfid, fingerprint),
                          ![c].votes = votes]
  /\ UNCHANGED <<linkvars, clock, ledger, next_pk, voters, sess, groups, chan, received, probe, elections>>

\* validate without its step 3, the has_voted check
Validation_NoDuplicateCheck(slug, voter_hash) ==
  IF ~(\E e \in Elections : /\ e.election_id = slug /\ e.id \in DOMAIN elections
                             /\ elections[e.id])
  THEN "election"
  ELSE IF <<ElectionBySlug(slug).id, voter_hash>> \notin DOMAIN voters
  THEN "voter"
  ELSE "valid"

\* validate looking the election up without is_active=True
Validation_AnyElection(slug, voter_hash) ==
  IF ~(\E e \in Elections : e.election_id = slug /\ e.id \in DOMAIN elections)
  THEN "election"
  ELSE IF <<ElectionBySlug(slug).id, voter_hash>> \notin DOMAIN voters
  THEN "voter"
  ELSE IF voters[<<ElectionBySlug(slug).id, voter_hash>>]
  THEN "duplicate"
  ELSE "valid"

\* CastBallotSerializer.validate: the outcome for the request's fields
Validation(slug, voter_hash) ==
  IF ~(\E e \in Elections : /\ e.election_id = slug /\ e.id \in DOMAIN elections
                             /\ elections[e.id])
  THEN "election"
  ELSE IF <<ElectionBySlug(slug).id, voter_hash>> \notin DOMAIN voters
  THEN "voter"
  ELSE IF voters[<<ElectionBySlug(slug).id, voter_hash>>]
  THEN "duplicate"
  ELSE "valid"

\* post, step 1-2: serializer.is_valid(), 400 on a validation error
CastValidate(c) ==
  /\ req[c].pc = "validate"
  /\ LET outcome == Validation(req[c].slug, req[c].voter_hash)
     IN req' = [req EXCEPT ![c] =
                  IF outcome = "valid"
                  THEN [req[c] EXCEPT !.pc = "save_ts", !.slug = "",
                                      !.election = ElectionBySlug(req[c].slug).id]
                  ELSE Respond(req[c], 400, outcome)]
  /\ UNCHANGED <<linkvars, clock, ledger, next_pk, voters, sess, groups, chan, received, probe, elections>>

\* VoteLedger.save: self.timestamp = timezone.now(), before any query; the
\* clock has advanced since its last reading, or has not
CastSetTimestamp(c) ==
  /\ req[c].pc = "save_ts"
  /\ \E now \in clock..MaxClock :
       /\ clock' = now
       /\ req' = [req EXCEPT ![c].pc = "read_tail", ![c].timestamp = now]
  /\ UNCHANGED <<linkvars, ledger, next_pk, voters, sess, groups, chan, received, probe, elections>>

\* VoteLedger.save: last_vote query, previous_hash, current_hash
CastReadTail(c) ==
  /\ req[c].pc = "read_tail"
  /\ \E prev \in IF RowsOf(req[c].election) = {} THEN {GenesisHash}
                 ELSE {r.current_hash : r \in LastVotes(req[c].election)} :
       req' = [req EXCEPT ![c].pc = "insert",
                          ![c].previous_hash = prev,
                          ![c].current_hash =
                            calculate_hash(req[c].election, req[c].votes,
                                           req[c].timestamp, prev)]
  /\ UNCHANGED <<linkvars, clock, ledger, next_pk, voters, sess, groups, chan, received, probe, elections>>

\* the row a request's INSERT holds
RowOf(r) ==
  [id |-> r.pk, election |-> r.election, ballot_data |-> r.votes,
   timestamp |-> r.timestamp, previous_hash |-> r.previous_hash,
   current_hash |-> r.current_hash]

\* the INSERT with no enclosing transaction in post: it is committed at once
CastInsert_Autocommit(c) ==
  /\ req[c].pc = "insert"
  /\ IF \E i \in 1..Len(ledger) : ledger[i].current_hash = req[c].current_hash
     THEN /\ req' = [req EXCEPT ![c] = Respond(req[c], 500, "integrity")]
          /\ UNCHANGED <<linkvars, ledger, next_pk>>
     ELSE /\ req' = [req EXCEPT ![c].pc = "mark_voter", ![c].pk = next_pk]
          /\ ledger' = Append(ledger, [RowOf(req[c]) EXCEPT !.id = next_pk])
          /\ next_pk' = next_pk + 1
  /\ UNCHANGED <<linkvars, clock, voters, sess, groups, chan, received, probe, elections>>

\* the INSERT into a table whose current_hash column has no unique index
CastInsert_NoUniqueIndex(c) ==
  /\ req[c].pc = "insert"
  /\ req' = [req EXCEPT ![c].pc = "mark_voter", ![c].inserted = TRUE, ![c].pk = next_pk]
  /\ next_pk' = next_pk + 1
  /\ UNCHANGED <<linkvars, clock, ledger, voters, sess, groups, chan, received, probe, elections>>

\* VoteLedger.save: super().save(), the INSERT inside the caller's transaction;
\* the primary key comes from the table's sequence, which no rollback rewinds;
\* the unique index on current_hash waits for an uncommitted equal value and
\* refuses a committed one (IntegrityError, answered 500 by post)
CastInsert(c) ==
  /\ req[c].pc = "insert"
  /\ ~\E d \in Casts \ {c} : req[d].inserted /\ req[d].current_hash = req[c].current_hash
  /\ IF \E i \in 1..Len(ledger) : ledger[i].current_hash = req[c].current_hash
     THEN /\ req' = [req EXCEPT ![c] = Respond(req[c], 500, "integrity")]
          /\ next_pk' = next_pk
     ELSE /\ req' = [req EXCEPT ![c].pc = "mark_voter", ![c].inserted = TRUE,
                                ![c].pk = next_pk]
          /\ next_pk' = next_pk + 1
  /\ UNCHANGED <<linkvars, clock, ledger, voters, sess, groups, chan, received, probe, elections>>

\* post, step 5: voter.has_voted = True; voter.save(), in the transaction
CastMarkVoter(c) ==
  /\ req[c].pc = "mark_voter"
  /\ req' = [req EXCEPT ![c].pc = "commit", ![c].marked = TRUE]
  /\ UNCHANGED <<linkvars, clock, ledger, next_pk, voters, sess, groups, chan, received, probe, elections>>

\* leaving "with transaction.atomic()": both writes become visible together;
\* of the request's locals only the election and the created entry's pk are
\* kept afterwards. The foreign
\* keys to Election are checked now: rows of an election that was deleted in
\* the meantime fail the commit (IntegrityError, answered 500)
CastCommit(c) ==
  /\ req[c].pc = "commit"
  /\ IF req[c].election \notin DOMAIN elections
     THEN /\ req' = [req EXCEPT ![c] = Respond(req[c], 500, "integrity")]
          /\ UNCHANGED <<linkvars, ledger, voters>>
     ELSE /\ ledger' = IF req[c].inserted THEN Append(ledger, RowOf(req[c])) ELSE ledger
          /\ voters' = IF req[c].marked
                       THEN [voters EXCEPT ![<<req[c].election, req[c].voter_hash>>] = TRUE]
                       ELSE voters
          /\ req' = [req EXCEPT ![c] = [NoReq EXCEPT !.pc = "tally_read",
                                                     !.committed = TRUE,
                                                     !.election = req[c].election,
                                                     !.pk = req[c].pk]]
  /\ UNCHANGED <<linkvars, clock, next_pk, sess, groups, chan, received, probe, elections>>

\* a database error inside the transaction: it rolls back, post answers 500
CastDbError(c) ==
  /\ req[c].pc \in {"read_tail", "insert", "mark_voter", "commit"}
  /\ req' = [req EXCEPT ![c] = Respond(req[c], 500, "internal")]
  /\ UNCHANGED <<linkvars, clock, ledger, next_pk, voters, sess, groups, chan, received, probe, elections>>

\* _get_tally_data, part 1: the tally over the election's ballots
CastTallyRead(c) ==
  /\ req[c].pc = "tally_read"
  /\ req' = [req EXCEPT ![c].pc = "ledger_read",
                        ![c].payload.tally =
                          TallyResults(ElectionById(req[c].election).positions_json,
                                       BallotsOf(req[c].election))]
  /\ UNCHANGED <<linkvars, clock, ledger, next_pk, voters, sess, groups, chan, received, probe, elections>>

\* the ledger listing if the query also saw the uncommitted rows of other
\* transactions
CastLedgerRead_DirtyRead(c) ==
  /\ req[c].pc = "ledger_read"
  /\ \E rows \in TimestampOrders(
                   RowsOf(req[c].election) \cup
                   {RowOf(req[d]) : d \in {x \in Casts : /\ req[x].pc \in {"mark_voter", "commit"}
                                                        /\ req[x].election = req[c].election}}) :
       req' = [req EXCEPT ![c].pc = "group_send",
                          ![c].payload.ledger = PublicLedger(rows)]
  /\ UNCHANGED <<linkvars, clock, ledger, next_pk, voters, sess, groups, chan, received, probe, elections>>

\* _get_tally_data, part 2: the ledger listing, a second query
CastLedgerRead(c) ==
  /\ req[c].pc = "ledger_read"
  /\ \E rows \in TimestampOrders(RowsOf(req[c].election)) :
       req' = [req EXCEPT ![c].pc = "group_send",
                          ![c].payload.ledger = PublicLedger(rows)]
  /\ UNCHANGED <<linkvars, clock, ledger, next_pk, voters, sess, groups, chan, received, probe, elections>>

\* the message group_send puts on a member's channel
UpdateMessage(r) ==
  [type |-> "dashboard.update", election |-> r.election, payload |-> r.payload]

\* group_send reaching the channels of every group
CastGroupSend_EveryGroup(c) ==
  /\ req[c].pc = "group_send"
  /\ chan' = [s \in Sessions |->
                IF \E g \in Slugs : s \in groups[g]
                THEN Append(chan[s], UpdateMessage(req[c]))
                ELSE chan[s]]
  /\ req' = [req EXCEPT ![c] = Respond([req[c] EXCEPT !.published = TRUE], 201, "success")]
  /\ UNCHANGED <<linkvars, clock, ledger, next_pk, voters, sess, groups, received, probe, elections>>

\* group_send giving up at the first member whose socket is closed
CastGroupSend_StopAtDead(c) ==
  /\ req[c].pc = "group_send"
  /\ chan' = [s \in Sessions |->
                IF /\ s \in groups[ElectionById(req[c].election).election_id]
                   /\ \A t \in groups[ElectionById(req[c].election).election_id] :
                        t <= s => sess[t].sock = "open"
                THEN Append(chan[s], UpdateMessage(req[c]))
                ELSE chan[s]]
  /\ req' = [req EXCEPT ![c] = Respond([req[c] EXCEPT !.published = TRUE], 201, "success")]
  /\ UNCHANGED <<linkvars, clock, ledger, next_pk, voters, sess, groups, received, probe, elections>>

\* post, step 6-7: channel_layer.group_send to the election's group, then 201
CastGroupSend(c) ==
  /\ req[c].pc = "group_send"
  /\ chan' = [s \in Sessions |->
                IF s \in groups[ElectionById(req[c].election).election_id]
                THEN Append(chan[s], UpdateMessage(req[c]))
                ELSE chan[s]]
  /\ req' = [req EXCEPT ![c] = Respond([req[c] EXCEPT !.published = TRUE], 201, "success")]
  /\ UNCHANGED <<linkvars, clock, ledger, next_pk, voters, sess, groups, received, probe, elections>>

\* post, step 6-7 with no dashboard connected: the snapshot is computed and
\* sent to the election's empty group, then 201
CastBroadcast(c) ==
  /\ req[c].pc = "tally_read"
  /\ groups[ElectionById(req[c].election).election_id] = {}
  /\ \E rows \in TimestampOrders(RowsOf(req[c].election)) :
       LET r == [req[c] EXCEPT
                   !.payload = [tally |-> TallyResults(
                                  ElectionById(req[c].election).positions_json,
                                  BallotsOf(req[c].election)),
                                ledger |-> PublicLedger(rows)],
                   !.published = TRUE]
       IN req' = [req EXCEPT ![c] = Respond(r, 201, "success")]
  /\ UNCHANGED <<linkvars, clock, ledger, next_pk, voters, sess, groups, chan, received, probe, elections>>

\* an exception in the broadcast block reaching the outer handler of post
CastBroadcastError_Surfaced(c) ==
  /\ req[c].pc \in {"tally_read", "ledger_read", "group_send"}
  /\ req' = [req EXCEPT ![c] = Respond(req[c], 500, "internal")]
  /\ UNCHANGED <<linkvars, clock, ledger, next_pk, voters, sess, groups, chan, received, probe, elections>>

\* an exception in the broadcast block is printed; post still answers 201
CastBroadcastError(c) ==
  /\ req[c].pc \in {"tally_read", "ledger_read", "group_send"}
  /\ req' = [req EXCEPT ![c] = Respond(req[c], 201, "success")]
  /\ UNCHANGED <<linkvars, clock, ledger, next_pk, voters, sess, groups, chan, received, probe, elections>>

(* --------------------------- DashboardConsumer ------------------------- *)
\* connect without its group_add
SessionConnect_NoGroupAdd(s, slugs) ==
  /\ sess[s].pc = "new"
  /\ \A t \in Sessions : t < s => sess[t].pc # "new"
  /\ \E slug \in slugs :
       sess' = [sess EXCEPT ![s].pc = "init_tally", ![s].election_id = slug,
                            ![s].sock = "open"]
  /\ UNCHANGED <<linkvars, clock, ledger, next_pk, voters, req, groups, chan, received, probe,
                 elections>>

\* connect, steps 1-4: group_add to dashboard_<election_id>, then accept();
\* the consumer handles no other message until connect has returned
SessionConnect(s, slugs) ==
  /\ sess[s].pc = "new"
  /\ \A t \in Sessions : t < s => sess[t].pc # "new"
  /\ \E slug \in slugs :
       /\ sess' = [sess EXCEPT ![s].pc = "init_tally", ![s].election_id = slug,
                               ![s].sock = "open"]
       /\ groups' = [groups EXCEPT ![slug] = @ \cup {s}]
  /\ UNCHANGED <<linkvars, clock, ledger, next_pk, voters, req, chan, received, probe, elections>>

\* get_initial_data: Election.objects.get, then the tally of _get_tally_data
SessionInitTally(s) ==
  /\ sess[s].pc = "init_tally"
  /\ IF ElectionExists(sess[s].election_id)
     THEN sess' = [sess EXCEPT ![s].pc = "init_ledger",
                     ![s].payload.tally =
                       TallyResults(ElectionBySlug(sess[s].election_id).positions_json,
                                    BallotsOf(ElectionBySlug(sess[s].election_id).id))]
     ELSE sess' = [sess EXCEPT ![s].pc = "finish", ![s].has_data = FALSE]
  /\ UNCHANGED <<linkvars, clock, ledger, next_pk, voters, req, groups, chan, received, probe, elections>>

\* get_initial_data: the ledger listing of _get_tally_data
SessionInitLedger(s) ==
  /\ sess[s].pc = "init_ledger"
  /\ \E rows \in TimestampOrders(RowsOf(ElectionBySlug(sess[s].election_id).id)) :
       sess' = [sess EXCEPT ![s].pc = "finish", ![s].has_data = TRUE,
                            ![s].payload.ledger = PublicLedger(rows)]
  /\ UNCHANGED <<linkvars, clock, ledger, next_pk, voters, req, groups, chan, received, probe, elections>>

\* self.send reaching the browser whatever the socket's state
Deliver_Unconditional(s, message) ==
  [received EXCEPT ![s] = Append(@, message)]

\* what the browser gets from self.send: nothing once the socket is closed
Deliver(s, message) ==
  IF sess[s].sock = "open"
  THEN [received EXCEPT ![s] = Append(@, message)]
  ELSE received

\* connect sending whatever get_initial_data returned, without testing it
SessionFinishConnect_NoClose(s) ==
  /\ sess[s].pc = "finish"
  /\ received' = Deliver(s, [kind |-> "initial", election |-> 0,
                             payload |-> sess[s].payload])
  /\ sess' = [sess EXCEPT ![s].pc = "open", ![s].payload = NoPayload]
  /\ UNCHANGED <<linkvars, clock, ledger, next_pk, voters, req, groups, chan, probe, elections>>

\* connect, step 5: send the initial data, or close() when there is none
SessionFinishConnect(s) ==
  /\ sess[s].pc = "finish"
  /\ IF sess[s].has_data
     THEN /\ received' = Deliver(s, [kind |-> "initial",
                                     election |-> ElectionBySlug(sess[s].election_id).id,
                                     payload |-> sess[s].payload])
          /\ sess' = [sess EXCEPT ![s].pc = "open", ![s].payload = NoPayload]
     ELSE /\ received' = received
          /\ sess' = [sess EXCEPT ![s].pc = "open", ![s].sock = "closed",
                                  ![s].disconnect = TRUE]
  /\ UNCHANGED <<linkvars, clock, ledger, next_pk, voters, req, groups, chan, probe, elections>>

\* the browser closes the page: the server queues websocket.disconnect
SessionClientClose(s) ==
  /\ sess[s].sock = "open"
  /\ sess' = [sess EXCEPT ![s].sock = "closed", ![s].disconnect = TRUE]
  /\ UNCHANGED <<linkvars, clock, ledger, next_pk, voters, req, groups, chan, received, probe, elections>>

\* group_discard emptying the group
group_discard_WholeGroup(grps, group, channel) ==
  [grps EXCEPT ![group] = {}]

\* channel_layer.group_discard(group, channel): the channel leaves the group;
\* nothing happens when it is no member
group_discard(grps, group, channel) ==
  [grps EXCEPT ![group] = @ \ {channel}]

\* disconnect: group_discard, after which the consumer stops
SessionDisconnect(s) ==
  /\ sess[s].pc = "open"
  /\ sess[s].disconnect
  /\ groups' = group_discard(groups, sess[s].election_id, s)
  /\ sess' = [sess EXCEPT ![s].pc = "stopped", ![s].disconnect = FALSE]
  /\ UNCHANGED <<linkvars, clock, ledger, next_pk, voters, req, chan, received, probe, elections>>

\* dashboard_update dispatched while connect is still awaiting its data
SessionDashboardUpdate_DuringConnect(s) ==
  /\ sess[s].pc \in {"init_tally", "init_ledger", "finish", "open"}
  /\ chan[s] # <<>>
  /\ received' = Deliver(s, [kind |-> "update", election |-> Head(chan[s]).election,
                             payload |-> Head(chan[s]).payload])
  /\ chan' = [chan EXCEPT ![s] = Tail(@)]
  /\ UNCHANGED <<linkvars, clock, ledger, next_pk, voters, req, sess, groups, probe, elections>>

\* dashboard_update: the next group message of the channel goes to the browser
SessionDashboardUpdate(s) ==
  /\ sess[s].pc = "open"
  /\ chan[s] # <<>>
  /\ received' = Deliver(s, [kind |-> "update", election |-> Head(chan[s]).election,
                             payload |-> Head(chan[s]).payload])
  /\ chan' = [chan EXCEPT ![s] = Tail(@)]
  /\ UNCHANGED <<linkvars, clock, ledger, next_pk, voters, req, sess, groups, probe, elections>>

\* the state of a session in the sense of the session life cycle
SessionState(s) ==
  IF sess[s].pc = "new" THEN "None"
  ELSE IF sess[s].sock = "closed" THEN "Closed"
  ELSE IF sess[s].pc = "open" THEN "Subscribed"
  ELSE "Connecting"

(* ----------------------------- public reads ---------------------------- *)
\* Http404
NotFound == [status |-> 404, data |-> [detail |-> "Not found."]]

\* PublicElectionDetailSerializer: fields name, election_id, positions_json
PublicElectionDetail(e) ==
  [name |-> e.name, election_id |-> e.election_id, positions_json |-> e.positions_json]

\* the ballot-schema read answering for an inactive election as well
PublicElectionDetailGet_AnyElection(slug) ==
  /\ probe' = [op |-> "election_detail", slug |-> slug] @@
               (IF ElectionExists(slug)
                THEN [status |-> 200, data |-> PublicElectionDetail(ElectionBySlug(slug))]
                ELSE NotFound)
  /\ UNCHANGED <<linkvars, clock, ledger, next_pk, voters, elections, req, sess, groups, chan,
                 received>>

\* PublicElectionDetailView.get: Election.objects.get(election_id=...), 404
\* if there is none or it is not active, else the serialized election
PublicElectionDetailGet(slug) ==
  /\ probe' = [op |-> "election_detail", slug |-> slug] @@
               (IF ElectionExists(slug) /\ elections[ElectionBySlug(slug).id]
                THEN [status |-> 200, data |-> PublicElectionDetail(ElectionBySlug(slug))]
                ELSE NotFound)
  /\ UNCHANGED <<linkvars, clock, ledger, next_pk, voters, elections, req, sess, groups, chan,
                 received>>

\* PublicTallyView.get: Election.objects.get(election_id=...), 404 if there
\* is none, else the payload of _get_tally_data
PublicTallyGet(slug) ==
  /\ IF ElectionExists(slug)
     THEN \E rows \in TimestampOrders(RowsOf(ElectionBySlug(slug).id)) :
            probe' = [op |-> "public_tally", slug |-> slug, status |-> 200,
                      data |-> [tally |-> TallyResults(
                                            ElectionBySlug(slug).positions_json,
                                            BallotsOf(ElectionBySlug(slug).id)),
                                ledger |-> PublicLedger(rows)]]
     ELSE probe' = [op |-> "public_tally", slug |-> slug] @@ NotFound
  /\ UNCHANGED <<linkvars, clock, ledger, next_pk, voters, elections, req, sess, groups, chan,
                 received>>

(* ------------------------- LinkHardwareView.post ----------------------- *)
\* the response of a finished link; the request's fields stay recorded
LinkRespond(r, status) ==
  [r EXCEPT !.pc = "done", !.status = status]

\* the transaction of save is rolled back and the ValidationError that save
\* raises is answered with 400
LinkRollback(r) ==
  [LinkRespond(r, 400) EXCEPT !.marked = FALSE, !.created = FALSE]

\* a POST /link-hardware arrives with election_id, unique_identifier, rfid
\* and fingerprint; validate looks the active election up
LinkReceive(l, slugs) ==
  /\ link[l].pc = "idle"
  /\ \A d \in Links : d < l => link[d].pc # "idle"
  /\ \E slug \in slugs, unique_identifier \in UniqueIdentifiers,
        rfid \in Rfids, fingerprint \in Fingerprints :
       link' = [link EXCEPT ![l] =
         IF ElectionExists(slug) /\ elections[ElectionBySlug(slug).id]
         THEN [NoLink EXCEPT !.pc = "load", !.election = ElectionBySlug(slug).id,
                             !.unique_identifier = unique_identifier,
                             !.voter_hash = hash_voter_data(rfid, fingerprint)]
         ELSE LinkRespond(NoLink, 400)]
  /\ UNCHANGED <<preapproved, registered, clock, ledger, next_pk, voters, elections, req,
                 sess, groups, chan, received, probe>>

\* validate, steps 2 and 3: the PreApprovedVoter row is loaded and must not
\* be linked
LinkLoad(l) ==
  /\ link[l].pc = "load"
  /\ LET k == <<link[l].election, link[l].unique_identifier>> IN
       link' = [link EXCEPT ![l] =
         IF k \in DOMAIN preapproved /\ ~preapproved[k]
         THEN [link[l] EXCEPT !.pc = "check_hardware"]
         ELSE LinkRespond(link[l], 400)]
  /\ UNCHANGED <<preapproved, registered, clock, ledger, next_pk, voters, elections, req,
                 sess, groups, chan, received, probe>>

\* validate, step 4: no RegisteredVoter of the election has the voter_hash
LinkCheckHardware(l) ==
  /\ link[l].pc = "check_hardware"
  /\ link' = [link EXCEPT ![l] =
       IF <<link[l].election, link[l].voter_hash>> \in DOMAIN voters
       THEN LinkRespond(link[l], 400)
       ELSE [link[l] EXCEPT !.pc = "mark"]]
  /\ UNCHANGED <<preapproved, registered, clock, ledger, next_pk, voters, elections, req,
                 sess, groups, chan, received, probe>>

\* save, in the transaction: preapproved_voter.is_linked = True and
\* preapproved_voter.save().  The UPDATE is not committed yet; it waits
\* while another transaction holds an uncommitted UPDATE of the row
LinkMark(l) ==
  /\ link[l].pc = "mark"
  /\ ~\E m \in Links \ {l} :
        /\ link[m].pc \in {"create", "commit"}
        /\ link[m].election = link[l].election
        /\ link[m].unique_identifier = link[l].unique_identifier
  /\ link' = [link EXCEPT ![l].pc = "create", ![l].marked = TRUE]
  /\ UNCHANGED <<preapproved, registered, clock, ledger, next_pk, voters, elections, req,
                 sess, groups, chan, received, probe>>

\* the INSERT of LinkCreate if RegisteredVoter had no unique_together
LinkCreate_NoUniqueTogether(l) ==
  /\ link[l].pc = "create"
  /\ link' = [link EXCEPT ![l].pc = "commit", ![l].created = TRUE]
  /\ UNCHANGED <<preapproved, registered, clock, ledger, next_pk, voters, elections, req,
                 sess, groups, chan, received, probe>>

\* save, in the transaction: RegisteredVoter.objects.create(election,
\* voter_hash, has_voted=False).  unique_together refuses a second row of
\* the election with the voter_hash: the INSERT waits for a transaction
\* that holds such a row uncommitted and raises IntegrityError if the row
\* is committed, which rolls the transaction back
LinkCreate(l) ==
  /\ link[l].pc = "create"
  /\ ~\E m \in Links \ {l} :
        /\ link[m].pc = "commit"
        /\ link[m].election = link[l].election
        /\ link[m].voter_hash = link[l].voter_hash
  /\ link' = [link EXCEPT ![l] =
       IF <<link[l].election, link[l].voter_hash>> \in DOMAIN voters
       THEN LinkRollback(link[l])
       ELSE [link[l] EXCEPT !.pc = "commit", !.created = TRUE]]
  /\ UNCHANGED <<preapproved, registered, clock, ledger, next_pk, voters, elections, req,
                 sess, groups, chan, received, probe>>

\* the commit if the UPDATE of is_linked had been run outside the transaction
LinkCommit_VoterOnly(l) ==
  /\ link[l].pc = "commit"
  /\ registered' = Append(registered, [election |-> link[l].election,
                                        voter_hash |-> link[l].voter_hash,
                                        has_voted |-> FALSE])
  /\ voters' = [k \in DOMAIN voters \cup {<<link[l].election, link[l].voter_hash>>} |->
                  IF k \in DOMAIN voters THEN voters[k] ELSE FALSE]
  /\ link' = [link EXCEPT ![l] = LinkRespond(link[l], 201)]
  /\ UNCHANGED <<preapproved, clock, ledger, next_pk, elections, req,
                 sess, groups, chan, received, probe>>

\* the transaction commits: the row's is_linked and the RegisteredVoter row
\* become visible together, and 201 is answered
LinkCommit(l) ==
  /\ link[l].pc = "commit"
  /\ preapproved' = [preapproved EXCEPT
                       ![<<link[l].election, link[l].unique_identifier>>] = TRUE]
  /\ registered' = Append(registered, [election |-> link[l].election,
                                        voter_hash |-> link[l].voter_hash,
                                        has_voted |-> FALSE])
  /\ voters' = [k \in DOMAIN voters \cup {<<link[l].election, link[l].voter_hash>>} |->
                  IF k \in DOMAIN voters THEN voters[k] ELSE FALSE]
  /\ link' = [link EXCEPT ![l] = LinkRespond(link[l], 201)]
  /\ UNCHANGED <<clock, ledger, next_pk, elections, req,
                 sess, groups, chan, received, probe>>

\* a statement of the transaction or its commit fails: save catches the
\* exception after the rollback and raises ValidationError
LinkDbError(l) ==
  /\ link[l].pc \in {"mark", "create", "commit"}
  /\ link' = [link EXCEPT ![l] = LinkRollback(link[l])]
  /\ UNCHANGED <<preapproved, registered, clock, ledger, next_pk, voters, elections, req,
                 sess, groups, chan, received, probe>>

(* ------------------------ admin site and model API --------------------- *)
\* the delete view if VoteLedger.election were on_delete=CASCADE
AdminDeleteElection_Cascade(e) ==
  /\ e \in DOMAIN elections
  /\ ~\E c \in Casts : req[c].pc \in {"mark_voter", "commit"} /\ req[c].election = e
  /\ ~\E l \in Links : link[l].pc \in {"create", "commit"} /\ link[l].election = e
  /\ elections' = [i \in DOMAIN elections \ {e} |-> elections[i]]
  /\ voters' = [k \in {k \in DOMAIN voters : k[1] # e} |-> voters[k]]
  /\ ledger' = SelectSeq(ledger, LAMBDA r : r.election # e)
  /\ preapproved' = [k \in {k \in DOMAIN preapproved : k[1] # e} |-> preapproved[k]]
  /\ registered' = SelectSeq(registered, LAMBDA r : r.election # e)
  /\ UNCHANGED <<link, clock, next_pk, req, sess, groups, chan, received, probe>>

\* ElectionAdmin, the delete view: VoteLedger.election is on_delete=PROTECT,
\* so an election that has ledger entries is not deleted; one that has none
\* goes together with its registered and pre-approved voters
\* (on_delete=CASCADE).  The DELETE waits for a transaction that holds
\* uncommitted rows of the election
AdminDeleteElection(e) ==
  /\ e \in DOMAIN elections
  /\ ~\E c \in Casts : req[c].pc \in {"mark_voter", "commit"} /\ req[c].election = e
  /\ ~\E l \in Links : link[l].pc \in {"create", "commit"} /\ link[l].election = e
  /\ IF RowsOf(e) # {}
     THEN UNCHANGED <<elections, voters, preapproved, registered>>
     ELSE /\ elections' = [i \in DOMAIN elections \ {e} |-> elections[i]]
          /\ voters' = [k \in {k \in DOMAIN voters : k[1] # e} |-> voters[k]]
          /\ preapproved' = [k \in {k \in DOMAIN preapproved : k[1] # e} |-> preapproved[k]]
          /\ registered' = SelectSeq(registered, LAMBDA r : r.election # e)
  /\ UNCHANGED <<link, clock, ledger, next_pk, req, sess, groups, chan, received, probe>>

\* ElectionAdmin, the change view: is_active is saved as submitted
AdminSetActive(e, is_active) ==
  /\ e \in DOMAIN elections
  /\ elections' = [elections EXCEPT ![e] = is_active]
  /\ UNCHANGED <<linkvars, clock, ledger, next_pk, voters, req, sess, groups, chan, received, probe>>

\* VoteLedgerAdmin: has_add_permission, has_change_permission and
\* has_delete_permission return False, the request is refused
VoteLedgerAdminWrite(op) ==
  /\ op \in {"add", "change", "delete"}
  /\ UNCHANGED vars

\* VoteLedger.save on an entry loaded from the table, whose ballot_data the
\* caller has set: pk is not None, so timestamp, previous_hash and
\* current_hash are not recomputed, and super().save() writes the instance's
\* fields over the row
SavePersisted(i, ballot_data) ==
  /\ i \in 1..Len(ledger)
  /\ ledger' = [ledger EXCEPT ![i].ballot_data = ballot_data]
  /\ UNCHANGED <<linkvars, clock, next_pk, voters, elections, req, sess, groups, chan, received,
                 probe>>

(* --------------------------- VoteLedger.save --------------------------- *)
\* an instance that was never saved has no pk; a field the caller left out
\* holds its default: no timestamp, the blank hash
NoPk == 0
NoTimestamp == 0
BlankHash == <<>>

\* VoteLedger.save up to super().save(): the fields the instance is written
\* with, where now is the reading of timezone.now() and last_hash the
\* current_hash of the row the tail query returned (the genesis value if it
\* returned none)
save(self, now, last_hash) ==
  IF self.id = NoPk
  THEN LET timestamp == IF self.timestamp = NoTimestamp THEN now ELSE self.timestamp
       IN [self EXCEPT !.timestamp = timestamp,
                       !.previous_hash = last_hash,
                       !.current_hash = calculate_hash(self.election, self.ballot_data,
                                                       timestamp, last_hash)]
  ELSE self

\* VoteLedger(...).save() by one caller with no other writer beside it: the
\* transaction of save and the INSERT after it are one step; the unique
\* index on current_hash refuses a row whose hash is stored already
VoteLedgerCreate(self) ==
  /\ self.id = NoPk
  /\ self.election \in DOMAIN elections
  /\ \E now \in clock..MaxClock,
        last_hash \in IF RowsOf(self.election) = {} THEN {GenesisHash}
                      ELSE {r.current_hash : r \in LastVotes(self.election)} :
       LET out == save(self, now, last_hash) IN
       /\ clock' = IF self.timestamp = NoTimestamp THEN now ELSE clock
       /\ IF \E i \in 1..Len(ledger) : ledger[i].current_hash = out.current_hash
          THEN /\ probe' = [op |-> "save", self |-> self, raised |-> "IntegrityError"]
               /\ UNCHANGED <<linkvars, ledger, next_pk>>
          ELSE /\ ledger' = Append(ledger, [out EXCEPT !.id = next_pk])
               /\ next_pk' = next_pk + 1
               /\ probe' = [op |-> "save", self |-> self, raised |-> "none"]
  /\ UNCHANGED <<linkvars, voters, elections, req, sess, groups, chan, received>>

\* save() on the entry loaded from row i, whose ballot_data the caller has
\* set: nothing is recomputed, super().save() UPDATEs the row with the
\* instance's fields
VoteLedgerUpdate(i, ballot_data) ==
  /\ i \in 1..Len(ledger)
  /\ LET self == [ledger[i] EXCEPT !.ballot_data = ballot_data] IN
       /\ ledger' = [ledger EXCEPT ![i] = save(self, clock, BlankHash)]
       /\ probe' = [op |-> "save", self |-> self, raised |-> "none"]
  /\ UNCHANGED <<linkvars, clock, next_pk, voters, elections, req, sess, groups, chan, received>>

(* ---------------------------- specification ---------------------------- *)
\* the requests of the ledger specification: an active election, an inactive
\* one and an unknown slug, every credential, one ballot
LedgerSlugs == {"e1", "e3", "zz"}
LedgerBallots == {<< <<"President", "Alice">> >>}

Next ==
  \/ \E c \in Casts : CastReceive(c, LedgerSlugs, LedgerBallots)
  \/ \E c \in Casts : CastValidate(c)
  \/ \E c \in Casts : CastSetTimestamp(c)
  \/ \E c \in Casts : CastReadTail(c)
  \/ \E c \in Casts : CastInsert(c)
  \/ \E c \in Casts : CastMarkVoter(c)
  \/ \E c \in Casts : CastCommit(c)
  \/ \E c \in Casts : CastDbError(c)
  \/ \E c \in Casts : CastBroadcast(c)
  \/ \E c \in Casts : CastBroadcastError(c)

Spec == Init /\ [][Next]_vars

\* the dashboard specification: casts for the two active elections, sessions
\* for an election with casts, one without and an unknown slug
DashCastSlugs == {"e1", "e2"}
DashSessionSlugs == {"e1", "e2", "zz"}
\* the dashboard specification follows one session
DashSessions == {1}

DashNext ==
  \/ \E c \in Casts : CastReceive(c, DashCastSlugs, LedgerBallots)
  \/ \E c \in Casts : CastValidate(c)
  \/ \E c \in Casts : CastSetTimestamp(c)
  \/ \E c \in Casts : CastReadTail(c)
  \/ \E c \in Casts : CastInsert(c)
  \/ \E c \in Casts : CastMarkVoter(c)
  \/ \E c \in Casts : CastCommit(c)
  \/ \E c \in Casts : CastDbError(c)
  \/ \E c \in Casts : CastTallyRead(c)
  \/ \E c \in Casts : CastLedgerRead(c)
  \/ \E c \in Casts : CastGroupSend(c)
  \/ \E c \in Casts : CastBroadcastError(c)
  \/ \E s \in DashSessions : SessionConnect(s, DashSessionSlugs)
  \/ \E s \in DashSessions : SessionInitTally(s)
  \/ \E s \in DashSessions : SessionInitLedger(s)
  \/ \E s \in DashSessions : SessionFinishConnect(s)
  \/ \E s \in DashSessions : SessionClientClose(s)
  \/ \E s \in DashSessions : SessionDisconnect(s)
  \/ \E s \in DashSessions : SessionDashboardUpdate(s)

SpecDash == Init /\ [][DashNext]_vars

\* the fan-out specification: one cast, statement by statement, and every
\* session, for the cast's election, another election or an unknown slug
HubCasts == {1}
HubCastSlugs == {"e1", "e2"}
HubSessionSlugs == {"e1", "e2", "zz"}

HubNext ==
  \/ \E c \in HubCasts : CastReceive(c, HubCastSlugs, LedgerBallots)
  \/ \E c \in HubCasts : CastValidate(c)
  \/ \E c \in HubCasts : CastSetTimestamp(c)
  \/ \E c \in HubCasts : CastReadTail(c)
  \/ \E c \in HubCasts : CastInsert(c)
  \/ \E c \in HubCasts : CastMarkVoter(c)
  \/ \E c \in HubCasts : CastCommit(c)
  \/ \E c \in HubCasts : CastDbError(c)
  \/ \E c \in HubCasts : CastTallyRead(c)
  \/ \E c \in HubCasts : CastLedgerRead(c)
  \/ \E c \in HubCasts : CastGroupSend(c)
  \/ \E c \in HubCasts : CastBroadcastError(c)
  \/ \E s \in Sessions : SessionConnect(s, HubSessionSlugs)
  \/ \E s \in Sessions : SessionInitTally(s)
  \/ \E s \in Sessions : SessionInitLedger(s)
  \/ \E s \in Sessions : SessionFinishConnect(s)
  \/ \E s \in Sessions : SessionClientClose(s)
  \/ \E s \in Sessions : SessionDisconnect(s)
  \/ \E s \in Sessions : SessionDashboardUpdate(s)

SpecHub == Init /\ [][HubNext]_vars

\* the tally specification: _get_tally_data over a schema and the ballots of
\* a growing ledger; the votes field takes any JSON, so a ballot may name an
\* unknown position, an undeclared candidate or an array
MaxBallots == 2

TallySchemas ==
  { << <<"President", <<"Alice", "Bob">>>>, <<"VP", <<"Carol">>>> >>,
    << <<"VP", <<"Carol", "Alice">>>>, <<"President", <<"Bob", "Alice">>>> >>,
    << <<"President", <<"Bob", "Alice", "Bob">>>> >> }

TallyBallots ==
  { << <<"President", "Alice">> >>,
    << <<"President", "Bob">>, <<"VP", "Carol">> >>,
    << <<"VP", "Carol">>, <<"President", "Alice">> >>,
    << <<"President", "Zed">>, <<"VP", "Carol">> >>,
    << <<"Treasurer", "Alice">>, <<"President", "Bob">> >>,
    << <<"Treasurer", "[Alice]">> >>,
    << <<"President", "[Alice]">>, <<"VP", "Carol">> >>,
    << <<"President", "Carol">> >>,
    << >> }

TallyInit ==
  /\ ServerInit
  /\ \E positions_json \in TallySchemas :
       probe = [op |-> "tally", positions_json |-> positions_json, ballots |-> <<>>,
                out |-> get_tally_data(positions_json, <<>>)]

\* one more ballot is in the ledger and the tally is computed again
TallyCount(ballot) ==
  /\ Len(probe.ballots) < MaxBallots
  /\ probe' = [probe EXCEPT !.ballots = Append(@, ballot),
                            !.out = get_tally_data(probe.positions_json,
                                                   Append(probe.ballots, ballot))]
  /\ UNCHANGED <<linkvars, clock, ledger, next_pk, voters, req, sess, groups, chan, received, elections>>

TallyNext == \E ballot \in TallyBallots : TallyCount(ballot)

SpecTally == TallyInit /\ [][TallyNext]_vars

\* the hash specification: calculate_hash on an entry's fields, on the same
\* fields with the ballot's keys in another order, and on the same fields
\* with another timestamp
HashElections == {1, 2}

HashBallots ==
  { << <<"President", "Alice">>, <<"VP", "Carol">> >>,
    << <<"VP", "Carol">>, <<"President", "Alice">> >>,
    << <<"President", "Bob">>, <<"VP", "Carol">> >>,
    << <<"President", "Alice">> >> }

HashPrevious ==
  { GenesisHash, calculate_hash(1, << <<"President", "Alice">> >>, 1, GenesisHash) }

NoDigest == <<>>

HashInit ==
  /\ ServerInit
  /\ \E election \in HashElections, ballot_data \in HashBallots, reordered \in HashBallots,
        timestamp \in 1..MaxClock, other_timestamp \in 1..MaxClock,
        previous_hash \in HashPrevious :
       probe = [op |-> "hash", election |-> election, ballot_data |-> ballot_data,
                reordered |-> reordered, timestamp |-> timestamp,
                other_timestamp |-> other_timestamp, previous_hash |-> previous_hash,
                digest |-> NoDigest, digest_again |-> NoDigest,
                digest_reordered |-> NoDigest, digest_other_time |-> NoDigest]

\* the digests of the entry, of the entry once more, of the entry with the
\* ballot as the other dict, and of the entry with the other timestamp
HashApply ==
  /\ probe.digest = NoDigest
  /\ probe' = [probe EXCEPT
       !.digest = calculate_hash(probe.election, probe.ballot_data,
                                 probe.timestamp, probe.previous_hash),
       !.digest_again = calculate_hash(probe.election, probe.ballot_data,
                                       probe.timestamp, probe.previous_hash),
       !.digest_reordered = calculate_hash(probe.election, probe.reordered,
                                           probe.timestamp, probe.previous_hash),
       !.digest_other_time = calculate_hash(probe.election, probe.ballot_data,
                                            probe.other_timestamp, probe.previous_hash)]
  /\ UNCHANGED <<linkvars, clock, ledger, next_pk, voters, req, sess, groups, chan, received, elections>>

HashNext == HashApply

SpecHash == HashInit /\ [][HashNext]_vars

(* the cast requests beside the admin site and a caller of VoteLedger.save *)
AdminNext ==
  \/ \E c \in Casts :
        \/ CastReceive(c, LedgerSlugs, LedgerBallots)
        \/ CastValidate(c)
        \/ CastSetTimestamp(c)
        \/ CastReadTail(c)
        \/ CastInsert(c)
        \/ CastMarkVoter(c)
        \/ CastCommit(c)
        \/ CastDbError(c)
        \/ CastBroadcast(c)
        \/ CastBroadcastError(c)
  \/ \E e \in ElectionIds : AdminDeleteElection(e)
  \/ \E e \in ElectionIds, is_active \in BOOLEAN : AdminSetActive(e, is_active)
  \/ \E op \in {"add", "change", "delete"} : VoteLedgerAdminWrite(op)
  \/ \E i \in 1..NumCasts, ballot_data \in Ballots : SavePersisted(i, ballot_data)

SpecAdmin == Init /\ [][AdminNext]_vars

(* one cast for an election and one dashboard session of it, under fair    *)
(* scheduling: the server goes on with a request it has accepted and with  *)
(* a consumer it has started; requests, connections, closing browsers and  *)
(* failures come as they will                                              *)
LiveSlugs == {"e1"}

CastStep(c) ==
  \/ CastValidate(c)
  \/ CastSetTimestamp(c)
  \/ CastReadTail(c)
  \/ CastInsert(c)
  \/ CastMarkVoter(c)
  \/ CastCommit(c)
  \/ CastTallyRead(c)
  \/ CastLedgerRead(c)
  \/ CastGroupSend(c)

SessionStep(s) ==
  \/ SessionInitTally(s)
  \/ SessionInitLedger(s)
  \/ SessionFinishConnect(s)
  \/ SessionDisconnect(s)
  \/ SessionDashboardUpdate(s)

LiveNext ==
  \/ \E c \in HubCasts : CastReceive(c, LiveSlugs, LedgerBallots)
  \/ \E c \in HubCasts : CastStep(c)
  \/ \E c \in HubCasts : CastDbError(c)
  \/ \E c \in HubCasts : CastBroadcastError(c)
  \/ \E s \in DashSessions : SessionConnect(s, LiveSlugs)
  \/ \E s \in DashSessions : SessionStep(s)
  \/ \E s \in DashSessions : SessionClientClose(s)

SpecLive ==
  /\ Init
  /\ [][LiveNext]_vars
  /\ \A c \in HubCasts : WF_vars(CastStep(c))
  /\ \A s \in DashSessions : WF_vars(SessionStep(s))

(* casts for the two active elections, with no dashboard connected *)
ChainsNext ==
  \E c \in Casts :
    \/ CastReceive(c, DashCastSlugs, LedgerBallots)
    \/ CastStep(c)
    \/ CastDbError(c)
    \/ CastBroadcastError(c)

SpecChains == Init /\ [][ChainsNext]_vars

(* the public reads beside one cast, one dashboard session and the         *)
(* admin's changes to the elections                                        *)
ReadSlugs == {"e1", "e3", "zz"}

ReadNext ==
  \/ \E c \in HubCasts : CastReceive(c, LiveSlugs, LedgerBallots)
  \/ \E c \in HubCasts : CastStep(c)
  \/ \E s \in DashSessions : SessionConnect(s, LiveSlugs)
  \/ \E s \in DashSessions : SessionStep(s)
  \/ \E e \in ElectionIds : AdminDeleteElection(e)
  \/ \E e \in ElectionIds, is_active \in BOOLEAN : AdminSetActive(e, is_active)
  \/ \E slug \in ReadSlugs : PublicElectionDetailGet(slug)
  \/ \E slug \in ReadSlugs : PublicTallyGet(slug)

SpecRead == Init /\ [][ReadNext]_vars

(* VoteLedger.save called with instances of which the caller has set any   *)
(* of the timestamp and the two hashes, and on entries already stored      *)
MaxEntries == 3

CallerHash == <<"caller">>

SaveInstances ==
  [id : {NoPk}, election : {1, 2}, ballot_data : Ballots,
   timestamp : {NoTimestamp} \cup 1..MaxClock,
   previous_hash : {BlankHash, CallerHash},
   current_hash : {BlankHash, CallerHash}]

SaveNext ==
  \/ \E self \in SaveInstances : Len(ledger) < MaxEntries /\ VoteLedgerCreate(self)
  \/ \E i \in 1..MaxEntries, ballot_data \in Ballots : VoteLedgerUpdate(i, ballot_data)

SpecSave == Init /\ [][SaveNext]_vars

(* the hardware-link requests: an election with one registered voter and   *)
(* an inactive one, known and unknown identifiers, every credential        *)
LinkSlugs == {"e2", "e3"}

LinkNext ==
  \/ \E l \in Links : LinkReceive(l, LinkSlugs)
  \/ \E l \in Links : LinkLoad(l)
  \/ \E l \in Links : LinkCheckHardware(l)
  \/ \E l \in Links : LinkMark(l)
  \/ \E l \in Links : LinkCreate(l)
  \/ \E l \in Links : LinkCommit(l)
  \/ \E l \in Links : LinkDbError(l)

SpecLink == Init /\ [][LinkNext]_vars

(* ------------------------------- claims -------------------------------- *)
\* the entries of election e in commit order
ChainOf(e) == SelectSeq(ledger, LAMBDA r : r.election = e)

GenesisCount(e) ==
  Cardinality({i \in 1..Len(ChainOf(e)) : ChainOf(e)[i].previous_hash = GenesisHash})

\* C1: no two entries of one election have the same previous_hash, under any
\* interleaving of the appends (the chain never forks).
C1_NoFork ==
  \A i, j \in 1..Len(ledger) :
    (i # j /\ ledger[i].election = ledger[j].election)
      => ledger[i].previous_hash # ledger[j].previous_hash

\* C2: an entry committed directly after another entry of its election has
\* that entry's current_hash as its previous_hash.
C2_LinkedInCommitOrder ==
  \A e \in ElectionIds : \A i \in 1..Len(ChainOf(e)) :
    i > 1 => ChainOf(e)[i].previous_hash = ChainOf(e)[i - 1].current_hash

\* C3: the first entry committed to an election has the genesis value as its
\* previous_hash, and no entry committed to a non-empty chain has it.
C3_GenesisIffFirst ==
  \A e \in ElectionIds : \A i \in 1..Len(ChainOf(e)) :
    (ChainOf(e)[i].previous_hash = GenesisHash) <=> (i = 1)

\* C4: each election's chain is empty or has exactly one entry whose
\* previous_hash is the genesis value.
C4_OneGenesis ==
  \A e \in ElectionIds : ChainOf(e) = <<>> \/ GenesisCount(e) = 1

\* C5: a cast's ledger entry and its voter's has_voted flag become visible in
\* one step or not at all: the ledger grows only in the commit of a request,
\* which leaves that request's voter flagged; a flag changes only in a step
\* that also appends that request's entry; and a request that fails inside
\* its transaction changes neither.
C5_AppendAndFlagTogether ==
  [][ /\ Len(ledger') # Len(ledger) =>
           \E c \in Casts :
             /\ req[c].pc = "commit" /\ req'[c].committed
             /\ ledger' = Append(ledger, RowOf(req[c]))
             /\ voters'[<<req[c].election, req[c].voter_hash>>]
      /\ voters' # voters =>
           \E c \in Casts :
             /\ req[c].pc = "commit" /\ req'[c].committed
             /\ ledger' = Append(ledger, RowOf(req[c]))
             /\ voters' = [voters EXCEPT ![<<req[c].election, req[c].voter_hash>>] = TRUE]
      /\ \A c \in Casts :
           (req[c].pc # "done" /\ req'[c].pc = "done" /\ req'[c].status = 500)
             => (ledger' = ledger /\ voters' = voters /\ ~req'[c].committed)
    ]_vars

\* C5 witness: one request failed between its two writes and left nothing,
\* another committed its entry and its voter's flag.
C5_Witness ==
  \E c, d \in Casts :
    /\ req[c].status = 500 /\ req[c].inserted /\ ~req[c].marked
    /\ req[d].committed /\ Len(ledger) = 1
    /\ Cardinality({k \in DOMAIN voters : voters[k]}) = 1

\* the RegisteredVoter row a received request names, if there is one
VoterKeyOf(r) ==
  IF ElectionExists(r.slug) THEN <<ElectionBySlug(r.slug).id, r.voter_hash>> ELSE <<0, <<>>>>

\* C6: a cast request whose voter's has_voted is already true is answered 400
\* as a duplicate vote and changes no stored entry, flag or channel.
C6_DuplicateRejected ==
  [][ \A c \in Casts :
        ( /\ req[c].pc = "validate" /\ req'[c].pc # "validate"
          /\ ElectionExists(req[c].slug) /\ elections[ElectionBySlug(req[c].slug).id]
          /\ VoterKeyOf(req[c]) \in DOMAIN voters
          /\ voters[VoterKeyOf(req[c])] )
        => ( /\ req'[c].pc = "done" /\ req'[c].status = 400
             /\ req'[c].reason = "duplicate"
             /\ ~req'[c].committed /\ ~req'[c].published
             /\ ledger' = ledger /\ voters' = voters /\ chan' = chan )
    ]_vars

\* C6 witness: a request was rejected as a duplicate after its voter's ballot
\* had been committed.
C6_Witness ==
  \E c \in Casts :
    /\ req[c].pc = "done" /\ req[c].status = 400 /\ req[c].reason = "duplicate"
    /\ Len(ledger) = 1

\* C7: a cast request naming no election, an inactive election, or a
\* credential not registered for the election is answered 400 and creates no
\* entry, changes no has_voted flag and publishes nothing.
C7_IneligibleRejected ==
  [][ \A c \in Casts :
        ( /\ req[c].pc = "validate" /\ req'[c].pc # "validate"
          /\ \/ ~ElectionExists(req[c].slug)
             \/ ~elections[ElectionBySlug(req[c].slug).id]
             \/ VoterKeyOf(req[c]) \notin DOMAIN voters )
        => ( /\ req'[c].pc = "done" /\ req'[c].status = 400
             /\ req'[c].reason \in {"election", "voter"}
             /\ ~req'[c].committed /\ ~req'[c].published
             /\ ledger' = ledger /\ voters' = voters
             /\ chan' = chan /\ received' = received )
    ]_vars

\* C7 witness: one request was rejected for its election and one for its
\* credential.
C7_Witness ==
  \E c, d \in Casts :
    /\ req[c].pc = "done" /\ req[c].reason = "election" /\ req[c].status = 400
    /\ req[d].pc = "done" /\ req[d].reason = "voter" /\ req[d].status = 400
    /\ ledger = <<>>

\* C8: the snapshots one session receives never go from one reflecting N
\* ledger entries to one reflecting fewer than N.
C8_SnapshotsNeverShrink ==
  \A s \in Sessions : \A i, j \in 1..Len(received[s]) :
    i < j => Len(received[s][i].payload.ledger) <= Len(received[s][j].payload.ledger)

\* every tally row of a payload counts zero votes
AllZero(tally) == \A i \in 1..Len(tally) : tally[i].votes = 0

\* C9: a session of an existing election gets exactly one initial snapshot,
\* as its first message and before any published update, although it is in
\* the group while the snapshot is fetched; a snapshot with an empty ledger
\* lists every declared pair with zero votes.
C9_InitialSnapshotFirst ==
  \A s \in Sessions :
    /\ sess[s].pc \in {"init_tally", "init_ledger", "finish"}
         => (received[s] = <<>> /\ s \in groups[sess[s].election_id])
    /\ received[s] # <<>> =>
         /\ received[s][1].kind = "initial"
         /\ received[s][1].election = ElectionBySlug(sess[s].election_id).id
         /\ \A i \in 2..Len(received[s]) : received[s][i].kind = "update"
         /\ received[s][1].payload.ledger = <<>> =>
              /\ AllZero(received[s][1].payload.tally)
              /\ received[s][1].payload.tally =
                   TallyResults(ElectionBySlug(sess[s].election_id).positions_json, <<>>)
    /\ (SessionState(s) = "Subscribed" /\ ElectionExists(sess[s].election_id))
         => received[s] # <<>>

\* C9 witness: an update was published while the session was connecting; the
\* session got the initial snapshot of the empty ledger first, then the update.
C9_Witness ==
  \E s \in Sessions :
    /\ Len(received[s]) = 2
    /\ received[s][1].kind = "initial" /\ received[s][1].payload.ledger = <<>>
    /\ AllZero(received[s][1].payload.tally) /\ received[s][1].payload.tally # <<>>
    /\ received[s][2].kind = "update" /\ Len(received[s][2].payload.ledger) = 1
    /\ Len(ledger) = 1

\* C10: a session for a slug that names no election gets no snapshot, is
\* never subscribed, is closed when connect returns, has no publish queued for
\* it, and is in no group once its disconnect has been handled.
C10_UnknownElectionClosed ==
  \A s \in Sessions :
    (sess[s].pc # "new" /\ ~ElectionExists(sess[s].election_id)) =>
      /\ received[s] = <<>>
      /\ chan[s] = <<>>
      /\ SessionState(s) # "Subscribed"
      /\ sess[s].pc \in {"open", "stopped"} => SessionState(s) = "Closed"
      /\ sess[s].pc = "stopped" => \A g \in Slugs : s \notin groups[g]

\* C10 witness: a session for an unknown slug was closed by connect and its
\* disconnect has been handled, while a cast was committed and published.
C10_Witness ==
  \E s \in Sessions :
    /\ sess[s].election_id = "zz" /\ sess[s].pc = "stopped"
    /\ \E c \in Casts : req[c].published

\* the group a request publishes to
GroupOf(r) == groups[ElectionById(r.election).election_id]

\* C11: a publish for an election puts its snapshot on the channel of every
\* session that is in the election's group at that moment and on no other
\* channel, and whatever a session has queued or has received is a snapshot
\* of the election it connected for.
C11_PublishToGroupOnly ==
  /\ [](\A s \in Sessions :
          /\ \A i \in 1..Len(chan[s]) :
               /\ ElectionExists(sess[s].election_id)
               /\ chan[s][i].election = ElectionBySlug(sess[s].election_id).id
          /\ \A i \in 1..Len(received[s]) :
               /\ ElectionExists(sess[s].election_id)
               /\ received[s][i].election = ElectionBySlug(sess[s].election_id).id)
  /\ [][ \A c \in Casts :
           (req[c].pc = "group_send" /\ req'[c].published) =>
             \A s \in Sessions :
               chan'[s] = IF s \in GroupOf(req[c])
                          THEN Append(chan[s], UpdateMessage(req[c]))
                          ELSE chan[s]
       ]_vars

\* C11 witness: a cast was published; a session of its election received the
\* update, a subscribed session of another election received only its
\* initial snapshot and has nothing queued.
C11_Witness ==
  \E s, t \in Sessions :
    /\ sess[s].election_id = "e1" /\ sess[t].election_id = "e2"
    /\ \E c \in Casts : req[c].published
    /\ Len(received[s]) = 2 /\ received[s][2].kind = "update"
    /\ SessionState(t) = "Subscribed" /\ Len(received[t]) = 1 /\ chan[t] = <<>>

\* C12: when the broadcast block fails after the transaction has committed,
\* the request is still answered 201 "success", the step changes neither the
\* ledger nor a has_voted flag, and no step ever removes an entry or clears a
\* flag.
C12_BroadcastFailureKeepsVote ==
  [][ /\ \A c \in Casts :
           ( /\ req[c].pc \in {"tally_read", "ledger_read", "group_send"}
             /\ req'[c].pc = "done" /\ ~req'[c].published )
           => ( /\ req'[c].status = 201 /\ req'[c].reason = "success"
                /\ req[c].committed /\ req'[c].committed
                /\ ledger' = ledger /\ voters' = voters )
      /\ Len(ledger') >= Len(ledger)
      /\ \A i \in 1..Len(ledger) : ledger'[i] = ledger[i]
      /\ \A k \in DOMAIN voters : voters[k] => voters'[k]
    ]_vars

\* C12 witness: a request whose broadcast failed was answered 201; its entry
\* is in the ledger and its voter is flagged.
C12_Witness ==
  \E c \in Casts :
    /\ req[c].pc = "done" /\ req[c].status = 201
    /\ req[c].committed /\ ~req[c].published
    /\ Len(ledger) = 1
    /\ Cardinality({k \in DOMAIN voters : voters[k]}) = 1

\* C13: a publish reaches the channel of every member of the group whether
\* or not another member's socket is dead; a step of a session (its close or
\* its disconnect included) changes no request, entry or flag and no other
\* session's channel or messages; and no dead session disables the next
\* statement of a request or the dispatch of another session's update.
C13_DeadSessionIsolated ==
  /\ [](/\ \A c \in HubCasts :
             /\ req[c].pc = "read_tail" => ENABLED CastReadTail(c)
             /\ req[c].pc = "insert" => ENABLED CastInsert(c)
             /\ req[c].pc = "mark_voter" => ENABLED CastMarkVoter(c)
             /\ req[c].pc = "commit" => ENABLED CastCommit(c)
             /\ req[c].pc = "tally_read" => ENABLED CastTallyRead(c)
             /\ req[c].pc = "ledger_read" => ENABLED CastLedgerRead(c)
             /\ req[c].pc = "group_send" => ENABLED CastGroupSend(c)
        /\ \A s \in Sessions :
             (sess[s].pc = "open" /\ chan[s] # <<>>) => ENABLED SessionDashboardUpdate(s))
  /\ [][ /\ \A c \in Casts :
              (req[c].pc = "group_send" /\ req'[c].published) =>
                \A s \in GroupOf(req[c]) :
                  /\ chan'[s] = Append(chan[s], UpdateMessage(req[c]))
                  /\ sess[s].sock = "open" => sess'[s].sock = "open"
         /\ \A s \in Sessions :
              (sess'[s] # sess[s] \/ received'[s] # received[s]) =>
                /\ req' = req /\ ledger' = ledger /\ voters' = voters
                /\ \A t \in Sessions \ {s} :
                     /\ chan'[t] = chan[t] /\ received'[t] = received[t]
                     /\ sess'[t] = sess[t]
                     /\ \A g \in Slugs : (t \in groups'[g]) <=> (t \in groups[g])
       ]_vars

\* C13 witness: the update was published while one member's socket was dead
\* (its message is still queued, its disconnect not yet handled); the other
\* member of the group received it.
C13_Witness ==
  \E s, t \in Sessions :
    /\ s # t /\ sess[s].election_id = sess[t].election_id
    /\ sess[s].sock = "closed" /\ sess[s].pc = "open" /\ sess[s].disconnect
    /\ chan[s] # <<>>
    /\ Len(received[t]) = 2 /\ received[t][2].kind = "update"

C15_SessionLifeCycle ==
  /\ [](\A s \in Sessions : \A g \in Slugs :
          s \in groups[g] => (sess[s].pc # "new" /\ g = sess[s].election_id))
  /\ [][ \A s \in Sessions :
           /\ <<SessionState(s), SessionState(s)'>> \in
                { <<"None", "None">>, <<"None", "Connecting">>,
                  <<"Connecting", "Connecting">>, <<"Connecting", "Subscribed">>,
                  <<"Connecting", "Closed">>, <<"Subscribed", "Subscribed">>,
                  <<"Subscribed", "Closed">>, <<"Closed", "Closed">> }
           /\ SessionState(s) = "Closed" => received'[s] = received[s]
           /\ sess[s].pc # "new" => sess'[s].election_id = sess[s].election_id
       ]_vars

\* C15 witness: one session was Subscribed, received the initial snapshot and
\* an update, and is Closed with its disconnect handled; another was closed
\* while Connecting and received nothing.
C15_Witness ==
  \E s, t \in Sessions :
    /\ s # t
    /\ SessionState(s) = "Closed" /\ sess[s].pc = "stopped" /\ Len(received[s]) = 2
    /\ SessionState(t) = "Closed" /\ received[t] = <<>>
    /\ ElectionExists(sess[t].election_id)

\* the place of a position in the schema, of a candidate in a position's list
PositionIndex(positions_json, position) ==
  CHOOSE a \in 1..Len(positions_json) : positions_json[a][1] = position

FirstIndex(seq, x) ==
  CHOOSE i \in 1..Len(seq) : seq[i] = x /\ \A j \in 1..(i - 1) : seq[j] # x

Declared(positions_json, position, candidate) ==
  \E a \in 1..Len(positions_json) :
    /\ positions_json[a][1] = position
    /\ \E b \in 1..Len(positions_json[a][2]) : positions_json[a][2][b] = candidate

RECURSIVE SumVotes(_, _)
SumVotes(rows, position) ==
  IF rows = <<>> THEN 0
  ELSE (IF Head(rows).position = position THEN Head(rows).votes ELSE 0)
       + SumVotes(Tail(rows), position)

\* C16: whatever ballots the ledger holds, the tally is produced and has
\* exactly one row for every declared (position, candidate) pair and no other
\* row, positions in schema order and candidates in the order of their
\* position's list; with no ballot every row counts 0.
C16_OneRowPerPairInOrder ==
  probe.op = "tally" =>
    LET schema == probe.positions_json
        rows == probe.out.tally
    IN /\ ~probe.out.raised
       /\ \A a \in 1..Len(schema) : \A b \in 1..Len(schema[a][2]) :
            Cardinality({i \in 1..Len(rows) :
                           /\ rows[i].position = schema[a][1]
                           /\ rows[i].candidate = schema[a][2][b]}) = 1
       /\ \A i \in 1..Len(rows) : Declared(schema, rows[i].position, rows[i].candidate)
       /\ \A i, j \in 1..Len(rows) :
            i < j =>
              \/ PositionIndex(schema, rows[i].position) < PositionIndex(schema, rows[j].position)
              \/ /\ rows[i].position = rows[j].position
                 /\ FirstIndex(schema[PositionIndex(schema, rows[i].position)][2], rows[i].candidate)
                      < FirstIndex(schema[PositionIndex(schema, rows[j].position)][2], rows[j].candidate)
       /\ probe.ballots = <<>> => \A i \in 1..Len(rows) : rows[i].votes = 0

\* C17: whatever ballots the ledger holds, the tally is produced and, for
\* every position of the schema, the counts of its candidates add up to the
\* number of ballots that name the position with a candidate declared for it.
C17_CountsSumToRecognisedBallots ==
  probe.op = "tally" =>
    /\ ~probe.out.raised
    /\ \A a \in 1..Len(probe.positions_json) :
         SumVotes(probe.out.tally, probe.positions_json[a][1]) =
           Cardinality({i \in 1..Len(probe.ballots) :
                          \E k \in 1..Len(probe.ballots[i]) :
                            /\ probe.ballots[i][k][1] = probe.positions_json[a][1]
                            /\ Declared(probe.positions_json,
                                        probe.ballots[i][k][1], probe.ballots[i][k][2])})

\* C18: counting one more ballot raises no error and adds one to the counter
\* of each of its pairs that the schema declares and nothing to any other
\* counter: a pair with an unknown position or an undeclared candidate is
\* skipped, the other pairs of the ballot are counted.
C18_UnknownPairIgnored ==
  [][ probe.op = "tally" =>
        LET ballot == probe'.ballots[Len(probe'.ballots)]
        IN /\ ~probe'.out.raised
           /\ Len(probe'.out.tally) = Len(probe.out.tally)
           /\ \A i \in 1..Len(probe.out.tally) :
                probe'.out.tally[i].votes =
                  probe.out.tally[i].votes +
                    (IF \E k \in 1..Len(ballot) :
                          ballot[k] = <<probe.out.tally[i].position,
                                         probe.out.tally[i].candidate>>
                     THEN 1 ELSE 0)
    ]_vars

\* the entries of election e whose current_hash is the given value
EntriesWithHash(e, h) == {i \in 1..Len(ChainOf(e)) : ChainOf(e)[i].current_hash = h}

\* C19: after any appends, the hash recomputed from the stored election,
\* ballot_data, timestamp and previous_hash of every entry is its stored
\* current_hash, and every election's chain verifies: one genesis entry
\* unless empty; every other entry has exactly one predecessor, of an
\* earlier timestamp; no previous_hash twice; no current_hash twice.
C19_ReproducibleAndVerified ==
  /\ \A i \in 1..Len(ledger) :
       ledger[i].current_hash =
         calculate_hash(ledger[i].election, ledger[i].ballot_data,
                        ledger[i].timestamp, ledger[i].previous_hash)
  /\ \A e \in ElectionIds :
       /\ ChainOf(e) = <<>> \/ GenesisCount(e) = 1
       /\ \A i \in 1..Len(ChainOf(e)) :
            ChainOf(e)[i].previous_hash # GenesisHash =>
              /\ Cardinality(EntriesWithHash(e, ChainOf(e)[i].previous_hash) \ {i}) = 1
              /\ \A j \in EntriesWithHash(e, ChainOf(e)[i].previous_hash) \ {i} :
                   ChainOf(e)[j].timestamp < ChainOf(e)[i].timestamp
       /\ \A i, j \in 1..Len(ChainOf(e)) :
            i # j => ChainOf(e)[i].previous_hash # ChainOf(e)[j].previous_hash
  /\ \A i, j \in 1..Len(ledger) : i # j => ledger[i].current_hash # ledger[j].current_hash

\* the ballots are the same dict: the same items, in whatever order
SameDict(a, b) == {a[k] : k \in 1..Len(a)} = {b[k] : k \in 1..Len(b)}

\* C20: computing the hash twice on the same fields gives the same digest;
\* it is the same when the ballot's keys come in another order; and it is
\* different when only the timestamp is changed.
C20_HashDeterministic ==
  (probe.op = "hash" /\ probe.digest # NoDigest) =>
    /\ probe.digest_again = probe.digest
    /\ SameDict(probe.ballot_data, probe.reordered) => probe.digest_reordered = probe.digest
    /\ probe.other_timestamp # probe.timestamp => probe.digest_other_time # probe.digest
    /\ probe.other_timestamp = probe.timestamp => probe.digest_other_time = probe.digest

\* C20 witness: the digest was computed for a ballot, for the same ballot
\* with its keys in the other order, and for another timestamp.
C20_Witness ==
  /\ probe.op = "hash" /\ probe.digest # NoDigest
  /\ probe.reordered # probe.ballot_data /\ SameDict(probe.ballot_data, probe.reordered)
  /\ probe.digest_reordered = probe.digest
  /\ probe.other_timestamp # probe.timestamp /\ probe.digest_other_time # probe.digest

\* C21: no two ledger entries, of any elections, carry the same current_hash,
\* and an append whose current_hash is already stored is not committed: its
\* INSERT is refused, the request ends with a 500 and the ledger keeps its
\* entries.
C21_HashUniqueOrRefused ==
  /\ [](\A i, j \in 1..Len(ledger) :
          ledger[i].current_hash = ledger[j].current_hash => i = j)
  /\ [][\A c \in Casts :
          (/\ req[c].pc \in {"insert", "mark_voter", "commit"}
           /\ \E i \in 1..Len(ledger) : ledger[i].current_hash = req[c].current_hash)
            => /\ ~req'[c].committed
               /\ req'[c] # req[c] =>
                    (req'[c].pc = "done" /\ req'[c].status = 500 /\ ledger' = ledger)
     ]_vars

\* C21 witness: an entry is committed and a second request, which computed
\* the same current_hash from the same election, ballot, timestamp and tail,
\* was refused by the unique index.
C21_Witness ==
  \E c, d \in Casts :
    /\ req[c].pc = "done" /\ req[c].status = 500 /\ req[c].reason = "integrity"
    /\ req[d].committed /\ Len(ledger) = 1

\* C22: the ledger is append-only: a step leaves every committed entry in
\* place with its election, ballot_data, timestamp, previous_hash and
\* current_hash, whatever operation takes it (a cast, the admin site, the
\* deletion of an election, a save of a persisted entry), so that no
\* election's chain gets shorter.
C22_AppendOnly ==
  [][ /\ Len(ledger') >= Len(ledger)
      /\ \A i \in 1..Len(ledger) : ledger'[i] = ledger[i]
      /\ \A e \in ElectionIds : Len(ChainOf(e)') >= Len(ChainOf(e))
    ]_vars

\* C22, the operations of the admin site and the casts alone: what holds of
\* the claim when no caller saves a persisted entry
C22_AppendOnlyBarSave ==
  [][ (\A i \in 1..Len(ledger), ballot_data \in Ballots :
         ~SavePersisted(i, ballot_data))
        => /\ Len(ledger') >= Len(ledger)
           /\ \A i \in 1..Len(ledger) : ledger'[i] = ledger[i]
    ]_vars

\* the current_hash at the tail of election e's chain, in commit order
TailHash(e) ==
  IF ChainOf(e) = <<>> THEN GenesisHash ELSE ChainOf(e)[Len(ChainOf(e))].current_hash

\* C23: an append never commits with a stale tail: the previous_hash an
\* append commits with is the current_hash of the entry that is the tail of
\* its election at the commit (the genesis value for an empty chain), also
\* when another append has committed since the first one read the tail.
C23_StaleTailNotCommitted ==
  [][\A c \in Casts :
       (req[c].pc = "commit" /\ req'[c].committed)
         => req[c].previous_hash = TailHash(req[c].election)
    ]_vars

\* C24: the listing order of an election's chain, timestamp ascending, is
\* its commit order: timestamps strictly increase along the commit order,
\* and every non-genesis entry has exactly one predecessor, of a strictly
\* smaller timestamp.
C24_TimestampOrderIsCommitOrder ==
  \A e \in ElectionIds :
    /\ \A i, j \in 1..Len(ChainOf(e)) :
         i < j => ChainOf(e)[i].timestamp < ChainOf(e)[j].timestamp
    /\ \A i \in 1..Len(ChainOf(e)) :
         ChainOf(e)[i].previous_hash # GenesisHash =>
           \E j \in 1..Len(ChainOf(e)) :
             /\ EntriesWithHash(e, ChainOf(e)[i].previous_hash) = {j}
             /\ ChainOf(e)[j].timestamp < ChainOf(e)[i].timestamp

\* the ledger parts of every snapshot a cast has computed or published
PublishedLedgers ==
  {req[c].payload.ledger : c \in Casts} \cup
  UNION {{chan[s][k].payload.ledger : k \in 1..Len(chan[s])} : s \in Sessions} \cup
  UNION {{received[s][k].payload.ledger : k \in 1..Len(received[s])} : s \in Sessions}

\* C25: a cast publishes its snapshot only after its transaction has
\* committed, and the snapshot it publishes lists the entry the cast
\* appended; every row of every snapshot is a committed entry, so that no
\* snapshot shows an entry of a transaction that was rolled back.
C25_PublishAfterCommit ==
  /\ [](\A l \in PublishedLedgers : \A k \in 1..Len(l) :
          \E i \in 1..Len(ledger) : l[k] = PublicLedgerRow(ledger[i]))
  /\ [][\A c \in Casts :
          (req[c].pc = "group_send" /\ req'[c].published)
            => /\ req[c].committed
               /\ \E i \in 1..Len(ledger) :
                    /\ ledger[i].id = req[c].pk /\ ledger[i].election = req[c].election
                    /\ \E k \in 1..Len(req[c].payload.ledger) :
                         req[c].payload.ledger[k] = PublicLedgerRow(ledger[i])
     ]_vars

\* C25 witness: one request's transaction was rolled back after its INSERT,
\* another committed and published, and the session has received the
\* published snapshot, which lists the committed entry alone.
C25_Witness ==
  \E c, d \in Casts :
    /\ req[d].status = 500 /\ req[d].inserted /\ ~req[d].committed
    /\ req[c].published /\ Len(ledger) = 1
    /\ \E k \in 1..Len(received[1]) :
         /\ received[1][k].kind = "update"
         /\ received[1][k].payload.ledger = <<PublicLedgerRow(ledger[1])>>

\* a broadcast block has failed: its cast is committed and was not published
DeliveryFailed == \E c \in Casts : req[c].pc = "done" /\ req[c].committed /\ ~req[c].published

\* session s has received a snapshot that lists every committed entry of its
\* election
ReceivedAll(s) ==
  \E k \in 1..Len(received[s]) :
    \A i \in 1..Len(ledger) :
      ledger[i].election = ElectionBySlug(sess[s].election_id).id
        => \E j \in 1..Len(received[s][k].payload.ledger) :
             received[s][k].payload.ledger[j] = PublicLedgerRow(ledger[i])

\* C26: under fair scheduling, a session with an open socket for an election
\* comes to hold a snapshot that lists every entry committed to the election,
\* unless its socket is closed or a broadcast fails, also for an entry that
\* is committed while the session connects.
C26_SubscriberCatchesUp ==
  \A s \in DashSessions :
    (sess[s].sock = "open") ~> (sess[s].sock # "open" \/ DeliveryFailed \/ ReceivedAll(s))

\* C26 witness: a cast was committed and published while the session was
\* connecting; the session, whose initial snapshot has missed the entry, has
\* received it with the update.
C26_Witness ==
  /\ sess[1].sock = "open" /\ Len(ledger) = 1 /\ ~DeliveryFailed
  /\ Len(received[1]) = 2
  /\ received[1][1].kind = "initial" /\ received[1][1].payload.ledger = <<>>
  /\ received[1][2].kind = "update"
  /\ received[1][2].payload.ledger = <<PublicLedgerRow(ledger[1])>>

\* C27: the chains of different elections do not interact: the commit of an
\* append to one election leaves the entries and the tail of every other
\* election as they were; the previous_hash of a non-genesis entry is the
\* current_hash of an entry of the same election; and the tally a cast
\* computes for its election counts that election's entries only.
C27_ChainsIndependent ==
  /\ [](\A e \in ElectionIds : \A i \in 1..Len(ChainOf(e)) :
          ChainOf(e)[i].previous_hash # GenesisHash
            => \E j \in 1..Len(ChainOf(e)) :
                 ChainOf(e)[j].current_hash = ChainOf(e)[i].previous_hash)
  /\ [][\A c \in Casts :
          /\ (req[c].pc = "commit" /\ req'[c].committed)
               => \A b \in ElectionIds \ {req[c].election} :
                    ChainOf(b)' = ChainOf(b) /\ TailHash(b)' = TailHash(b)
          /\ (req[c].pc = "tally_read" /\ req'[c].pc = "ledger_read")
               => \A k \in 1..Len(req'[c].payload.tally) :
                    req'[c].payload.tally[k].votes =
                      IF req'[c].payload.tally[k].candidate = "Alice"
                      THEN Len(ChainOf(req[c].election)) ELSE 0
     ]_vars

\* C27 witness: each of the two elections has an entry, the second committed
\* after the first and a genesis entry all the same, and a cast is holding
\* the tally of its election: one vote.
C27_Witness ==
  /\ Len(ledger) = 2 /\ ledger[1].election # ledger[2].election
  /\ ledger[2].previous_hash = GenesisHash
  /\ \E c \in Casts :
       /\ req[c].pc = "ledger_read"
       /\ \E k \in 1..Len(req[c].payload.tally) : req[c].payload.tally[k].votes = 1

Snapshots ==
  {req[c].payload : c \in {x \in Casts : req[x].pc = "group_send"}} \cup
  {sess[s].payload : s \in {x \in Sessions : sess[x].pc = "finish" /\ sess[x].has_data}} \cup
  UNION {{chan[s][k].payload : k \in 1..Len(chan[s])} : s \in Sessions} \cup
  UNION {{received[s][k].payload : k \in 1..Len(received[s])} : s \in Sessions}

\* C29: of the cast requests for an election, whatever their interleaving,
\* at most one per registered voter appends: an election has as many ledger
\* entries as registered voters whose has_voted is true.
C29_OneEntryPerVoter ==
  \A e \in ElectionIds :
    Len(ChainOf(e)) = Cardinality({k \in DOMAIN voters : k[1] = e /\ voters[k]})

\* C30: every snapshot is consistent in itself: its tally is the tally of
\* the entries its ledger part lists, also when an append commits between
\* the two reads that produce it.
C30_SnapshotConsistent ==
  \A p \in Snapshots :
    \A k \in 1..Len(p.tally) :
      p.tally[k].votes =
        Cardinality({j \in 1..Len(p.ledger) :
                       \E m \in 1..Len(p.ledger[j].ballot_data) :
                         p.ledger[j].ballot_data[m] =
                           <<p.tally[k].position, p.tally[k].candidate>>})

\* the entry a creation has just stored
Created == ledger'[Len(ledger')]

\* C31: on creation of an entry the store computes previous_hash from the
\* tail of the entry's election (the genesis value for an empty chain) and
\* current_hash from the entry's own fields, whatever the caller supplied
\* for either, and the timestamp that is hashed is the one stored; saving
\* an entry that is already stored recomputes neither link.
C31_SaveComputesLinks ==
  [][ /\ Len(ledger') = Len(ledger) + 1 =>
           /\ Created.previous_hash = TailHash(Created.election)
           /\ Created.current_hash =
                calculate_hash(Created.election, Created.ballot_data,
                               Created.timestamp, Created.previous_hash)
      /\ \A i \in 1..Len(ledger) :
           /\ ledger'[i].previous_hash = ledger[i].previous_hash
           /\ ledger'[i].current_hash = ledger[i].current_hash
    ]_vars

\* C31 with the tail read as the store's query reads it: the entry of the
\* greatest timestamp, which is the last committed one only while the
\* timestamps rise with the commits
C31_SaveComputesLinksFromQuery ==
  [][ /\ Len(ledger') = Len(ledger) + 1 =>
           /\ Created.previous_hash \in
                (IF RowsOf(Created.election) = {} THEN {GenesisHash}
                 ELSE {r.current_hash : r \in LastVotes(Created.election)})
           /\ Created.current_hash =
                calculate_hash(Created.election, Created.ballot_data,
                               Created.timestamp, Created.previous_hash)
           /\ probe'.self.timestamp # NoTimestamp =>
                Created.timestamp = probe'.self.timestamp
      /\ \A i \in 1..Len(ledger) :
           /\ ledger'[i].previous_hash = ledger[i].previous_hash
           /\ ledger'[i].current_hash = ledger[i].current_hash
    ]_vars

\* a creation whose caller supplied both hashes has stored an entry, and an
\* entry that was stored before has been saved again
C31_Witness ==
  /\ probe.op = "save" /\ probe.raised = "none"
  /\ probe.self.id = NoPk
  /\ probe.self.previous_hash = CallerHash /\ probe.self.current_hash = CallerHash
  /\ Len(ledger) = MaxEntries
  /\ \E i \in 1..Len(ledger) : ledger[i].current_hash #
         calculate_hash(ledger[i].election, ledger[i].ballot_data,
                        ledger[i].timestamp, ledger[i].previous_hash)

\* the links answered with 201
Linked == {l \in Links : link[l].status = 201}

\* C32, first part: no pre-approved identifier is consumed by two
\* successful links.
C32_IdentifierLinkedOnce ==
  \A l, m \in Linked :
    /\ link[l].election = link[m].election
    /\ link[l].unique_identifier = link[m].unique_identifier
    => l = m

\* C32, second part: no hardware credential is registered twice for an
\* election, neither by two links nor by a link beside a voter registered
\* before.
C32_CredentialRegisteredOnce ==
  /\ \A i, j \in 1..Len(registered) :
       /\ registered[i].election = registered[j].election
       /\ registered[i].voter_hash = registered[j].voter_hash
       => i = j
  /\ \A i \in 1..Len(registered) :
       <<registered[i].election, registered[i].voter_hash>> \notin RegisteredKeys

\* C32, third part: a link sets is_linked and creates the RegisteredVoter
\* with has_voted = false in one step, on answering 201, or does neither.
C32_LinkAllOrNothing ==
  [][ \/ /\ preapproved' = preapproved
         /\ registered' = registered
         /\ \A l \in Links : link'[l].status = 201 => link[l].status = 201
      \/ \E l \in Links :
           /\ link[l].status # 201 /\ link'[l].status = 201
           /\ \A m \in Links \ {l} : link'[m] = link[m]
           /\ preapproved'[<<link[l].election, link[l].unique_identifier>>]
           /\ \A k \in DOMAIN preapproved :
                k # <<link[l].election, link[l].unique_identifier>> =>
                  preapproved'[k] = preapproved[k]
           /\ registered' = Append(registered, [election |-> link[l].election,
                                                voter_hash |-> link[l].voter_hash,
                                                has_voted |-> FALSE])
    ]_vars

\* C32: under any interleaving of hardware-link requests, each pre-approved
\* identifier is consumed by at most one successful link and each hardware
\* credential is registered at most once per election; a link either sets
\* is_linked = true and creates the RegisteredVoter (with has_voted =
\* false) together, or does neither.
C32_LinkOnce ==
  /\ [](C32_IdentifierLinkedOnce /\ C32_CredentialRegisteredOnce)
  /\ C32_LinkAllOrNothing

\* one link has succeeded and another, for the same credential and another
\* pre-approved identifier, was refused and has left its identifier unlinked
C32_Witness ==
  \E l, m \in Links :
    /\ link[l].status = 201 /\ link[m].status = 400
    /\ link[m].election = link[l].election
    /\ link[m].voter_hash = link[l].voter_hash
    /\ link[m].unique_identifier # link[l].unique_identifier
    /\ <<link[m].election, link[m].unique_identifier>> \in DOMAIN preapproved
    /\ ~preapproved[<<link[m].election, link[m].unique_identifier>>]

====
